---- MODULE Spec2Model ----
(***************************************************************************)
(* A model of the Cypress test framework helpers of this repository:       *)
(*   - cypress.config.ts: environment selection, loading of the            *)
(*     environment configuration, the run configuration, setupNodeEvents;  *)
(*   - DbHelper (browser side): setConfig, getConfig, query,               *)
(*     executeStoredProcedure, which dispatch cy.task commands;            *)
(*   - DbHelper's verification helpers: verifyRecordExists,                *)
(*     verifyRecordNotExists, getRecordCount, verifyFieldValue,            *)
(*     deleteRecords, and the callbacks they chain on query;               *)
(*   - the database tasks (Node side): executeQuery,                       *)
(*     executeStoredProcedure, registerDatabaseTasks;                      *)
(*   - ApiHelper: get, post, put, delete and the response verifications.   *)
(* The SQL client (mssql), the HTTP client (cy.request), the file system   *)
(* and the runner are external: every outcome they can produce is a        *)
(* nondeterministic choice.                                                *)
(***************************************************************************)
EXTENDS Integers, Sequences, FiniteSets, TLC

VARIABLES
    config,          \* DbHelper.config, the process-wide static field
    setConfigCalled, \* history: DbHelper.setConfig has been called
    lastSetConfig,   \* history: the argument of the latest setConfig call
    lastCall,        \* history: the latest DbHelper call, its config argument
                     \* and how it ended
    commands,        \* the runner's command queue of dispatched cy.task calls
    dispatched,      \* history: number of cy.task commands dispatched
    registered,      \* task names registered through on('task', ...)
    setupDone,       \* setupNodeEvents of cypress.config.ts has run
    pc,              \* position of the task running in the Node process
    cur,             \* the task being run (name and argument)
    pool,            \* the local `pool` of the running task (TRUE: assigned)
    ret,             \* completion recorded by try/catch, pending the finally
    run,             \* history of the running task's steps
    opened,          \* history: connections opened so far
    open,            \* connections currently open
    settled,         \* history: how the last finished task ended
    ENV,             \* process.env.ENV as read at process start
    environment,     \* const environment of cypress.config.ts
    envPc,           \* position in the evaluation of cypress.config.ts
    required,        \* the module specifier given to require()
    artifact,        \* what require() of the environment's config file met
    envConfig,       \* let envConfig of cypress.config.ts
    warned,          \* console.warn was called by the catch block
    e2e,             \* the e2e object given to defineConfig
    db,              \* the rows of the table the database helpers query
    helper,          \* the DbHelper verification helper whose query is pending
    verdict,         \* history: how the last verification helper ended
    call,            \* history: the latest ApiHelper request operation called
    request,         \* the options of the latest cy.request command
    sent,            \* history: cy.request commands issued by the latest call
    response,        \* what the latest cy.request command yielded
    check,           \* history: the latest ApiHelper verification
    dbEnvironment,   \* history: the argument of the latest getDbConfig call
    dbConfig         \* history: how the latest getDbConfig call ended

dbVars == <<config, setConfigCalled, lastSetConfig, lastCall, commands, dispatched, registered,
            setupDone, pc, cur, pool, ret, run, opened, open, settled>>
envVars == <<ENV, environment, envPc, required, artifact, envConfig, warned, e2e>>
helperVars == <<helper, verdict>>
apiVars == <<call, request, sent, response, check>>
cfgVars == <<dbEnvironment, dbConfig>>
vars == <<dbVars, envVars, db, helperVars, apiVars, cfgVars>>

(***************************************************************************)
(* Bounds of the model.                                                    *)
(***************************************************************************)
MaxCalls == 2    \* cy.task commands dispatched in one run
MaxQueue == 2    \* commands waiting in the runner's queue

(***************************************************************************)
(* Values.                                                                 *)
(***************************************************************************)
Undefined == "undefined"
Null == "null"
\* a value for which JavaScript's `!x` is true / `x || y` yields y
Falsy(x) == x \in {Undefined, Null, ""}

DbConfigs == {"cfgA", "cfgB"}
\* what a caller can pass where a DbConfig is expected
ConfigArgs == DbConfigs \cup {Undefined}

Queries == {"SELECT", "INVALID SQL"}
ValidSql(q) == q # "INVALID SQL"

MaxRows == 2     \* rows of the table the verification helpers query

\* the table the verification helpers query, its rows and their columns;
\* a column value is its text v and its type t
Tables == {"Users"}
Fields == {"age"}
Rows == {[status |-> [t |-> "string", v |-> st], age |-> [t |-> "number", v |-> a]] :
            st \in {"active", "inactive"}, a \in {"1", "2"}}
Databases == UNION {[1..n -> Rows] : n \in 0..MaxRows}

\* the where clauses the tests use
WhereClauses == {"status = 'active'", "age = 1"}
\* whereClause?: omitted, empty or given
WhereArgs == WhereClauses \cup {Undefined, ""}
\* expectedValue: any
ExpectedFieldValues == {[t |-> "number", v |-> "1"], [t |-> "string", v |-> "1"]}
Procedures == {"GetUserById"}
\* the `parameters` argument: omitted, null, or a map given by its keys in
\* insertion order
UndefinedObject == [kind |-> "undefined"]
NullObject == [kind |-> "null"]
Object(keys) == [kind |-> "object", keys |-> keys]
Parameters == {UndefinedObject, NullObject, Object(<<"userId">>),
               Object(<<"userId", "name">>)}

ConfigNotSet == "Database configuration not set. Call DbHelper.setConfig() first."

NoTask == [task |-> "none"]
NoCall == [op |-> "none", arg |-> Undefined, outcome |-> "none", error |-> ""]
NoRet == [kind |-> "none"]
NoRun == [connect |-> "none", bound |-> <<>>, execute |-> "none", close |-> "none"]
NoSettled == [task |-> "none", run |-> NoRun, outcome |-> "none", value |-> NoRet]
NoHelper == [op |-> "none"]
NoVerdict == [op |-> "none"]

(***************************************************************************)
(* DbHelper (browser side).                                                *)
(***************************************************************************)

\* getConfig without the check of this.config
getConfig_NoCheck == [threw |-> FALSE, error |-> "", value |-> config]

\* getConfig falling back to a configuration instead of throwing
getConfig_Fallback ==
    [threw |-> FALSE, error |-> "",
     value |-> IF Falsy(config) THEN "cfgA" ELSE config]

\* private static getConfig(): throws when this.config is missing
getConfig ==
    IF Falsy(config)
    THEN [threw |-> TRUE, error |-> ConfigNotSet, value |-> Undefined]
    ELSE [threw |-> FALSE, error |-> "", value |-> config]

\* the stored configuration taken before the override
ResolveConfig_StoredFirst(customConfig) ==
    IF ~Falsy(config)
    THEN [threw |-> FALSE, error |-> "", value |-> config]
    ELSE IF Falsy(customConfig)
         THEN getConfig
         ELSE [threw |-> FALSE, error |-> "", value |-> customConfig]

\* const config = customConfig || this.getConfig();
ResolveConfig(customConfig) ==
    IF Falsy(customConfig)
    THEN getConfig
    ELSE [threw |-> FALSE, error |-> "", value |-> customConfig]

\* the object handed to cy.task('dbQuery', { query, config })
QueryCommand(query, cfg) ==
    [task |-> "dbQuery", arg |-> [query |-> query, config |-> cfg]]

\* the object handed to cy.task('dbStoredProcedure', {...})
ProcedureCommand(procedureName, parameters, cfg) ==
    [task |-> "dbStoredProcedure",
     arg |-> [procedureName |-> procedureName, parameters |-> parameters,
              config |-> cfg]]

\* cy.task(name, arg): the command joins the runner's queue
Dispatch(op, customConfig, command) ==
    /\ dispatched < MaxCalls
    /\ Len(commands) < MaxQueue
    /\ commands' = Append(commands, command)
    /\ dispatched' = dispatched + 1
    /\ lastCall' = [op |-> op, arg |-> customConfig, outcome |-> "dispatched",
                    error |-> ""]

\* the call ends by the exception of getConfig; nothing else happens
Throw(op, customConfig, error) ==
    /\ lastCall' = [op |-> op, arg |-> customConfig, outcome |-> "threw",
                    error |-> error]
    /\ UNCHANGED <<commands, dispatched>>

\* setConfig that also replaces the configuration of the commands issued
\* and not yet run
DbHelper_setConfig_Rebind(c) ==
    /\ config' = c
    /\ setConfigCalled' = TRUE
    /\ lastCall' = [op |-> "setConfig", arg |-> c, outcome |-> "returned",
                    error |-> ""]
    /\ lastSetConfig' = c
    /\ commands' = [i \in DOMAIN commands |->
                       [commands[i] EXCEPT !.arg.config = c]]
    /\ UNCHANGED <<dispatched, registered, setupDone, pc, cur, pool,
                   ret, run, opened, open, settled>>
    /\ UNCHANGED <<envVars, db, helperVars, apiVars, cfgVars>>

\* setConfig that keeps a configuration already stored
DbHelper_setConfig_KeepFirst(c) ==
    /\ config' = IF Falsy(config) THEN c ELSE config
    /\ setConfigCalled' = TRUE
    /\ lastCall' = [op |-> "setConfig", arg |-> c, outcome |-> "returned",
                    error |-> ""]
    /\ lastSetConfig' = c
    /\ UNCHANGED <<commands, dispatched, registered, setupDone, pc, cur, pool,
                   ret, run, opened, open, settled>>
    /\ UNCHANGED <<envVars, db, helperVars, apiVars, cfgVars>>

\* static setConfig(config)
DbHelper_setConfig(c) ==
    /\ config' = c
    /\ setConfigCalled' = TRUE
    /\ lastCall' = [op |-> "setConfig", arg |-> c, outcome |-> "returned",
                    error |-> ""]
    /\ lastSetConfig' = c
    /\ UNCHANGED <<commands, dispatched, registered, setupDone, pc, cur, pool,
                   ret, run, opened, open, settled>>
    /\ UNCHANGED <<envVars, db, helperVars, apiVars, cfgVars>>

\* the body of query: the configuration is resolved, then cy.task
this_query(query, customConfig) ==
    /\ LET r == ResolveConfig(customConfig) IN
         IF r.threw
         THEN Throw("query", customConfig, r.error)
         ELSE Dispatch("query", customConfig, QueryCommand(query, r.value))
    /\ UNCHANGED <<config, setConfigCalled, lastSetConfig, registered, setupDone,
                   pc, cur, pool, ret, run, opened, open, settled>>
    /\ UNCHANGED <<envVars, db, apiVars, cfgVars>>

\* static query(query, customConfig?)
DbHelper_query(query, customConfig) ==
    /\ this_query(query, customConfig)
    /\ UNCHANGED helperVars

\* static executeStoredProcedure(procedureName, parameters?, customConfig?)
DbHelper_executeStoredProcedure(procedureName, parameters, customConfig) ==
    /\ LET r == ResolveConfig(customConfig) IN
         IF r.threw
         THEN Throw("executeStoredProcedure", customConfig, r.error)
         ELSE Dispatch("executeStoredProcedure", customConfig,
                       ProcedureCommand(procedureName, parameters, r.value))
    /\ UNCHANGED <<config, setConfigCalled, lastSetConfig, registered, setupDone,
                   pc, cur, pool, ret, run, opened, open, settled>>
    /\ UNCHANGED <<envVars, db, helperVars, apiVars, cfgVars>>

(***************************************************************************)
(* The database tasks (Node side).                                         *)
(***************************************************************************)

\* a failure result that also carries data
FailureResult_WithData(message) ==
    [success |-> FALSE, error |-> message, data |-> <<>>]

\* return { success: true, data: result.recordset, rowsAffected: ... }
SuccessResult(result) ==
    [success |-> TRUE, data |-> result.recordset,
     rowsAffected |-> result.rowsAffected]

\* return { success: false, error: error.message }
FailureResult(message) == [success |-> FALSE, error |-> message]

\* what the SQL client answers to a statement that executed
SqlResults == {[recordset |-> <<>>, rowsAffected |-> <<0>>],
               [recordset |-> <<"row">>, rowsAffected |-> <<1>>]}

ConnectError == "Failed to connect"
RequestError == "Request failed"
BindError == "Invalid parameter"
KeysError == "Cannot convert undefined or null to object"
CloseError == "Failed to close"

\* the task's promise settles; the Node side is free for the next command
Settle(outcome, value, closeStep) ==
    /\ settled' = [task |-> cur.task, run |-> [run EXCEPT !.close = closeStep],
                   outcome |-> outcome, value |-> value]
    /\ pc' = "idle"
    /\ cur' = NoTask
    /\ pool' = FALSE
    /\ ret' = NoRet
    /\ run' = NoRun

\* the runner takes the next command and looks the task up among the
\* registered ones; an unregistered name fails the command, and a failed
\* command ends its test: the commands queued behind it are skipped
cy_task ==
    /\ pc = "idle"
    /\ commands # <<>>
    /\ IF Head(commands).task \in registered
       THEN /\ pc' = "connect"
            /\ cur' = Head(commands)
            /\ commands' = Tail(commands)
            /\ UNCHANGED settled
       ELSE /\ settled' = [task |-> Head(commands).task, run |-> NoRun,
                           outcome |-> "task not found", value |-> NoRet]
            /\ commands' = <<>>
            /\ UNCHANGED <<pc, cur>>
    /\ UNCHANGED <<config, setConfigCalled, lastSetConfig, lastCall, dispatched, registered,
                   setupDone, pool, ret, run, opened, open>>
    /\ UNCHANGED <<envVars, db, helperVars, apiVars, cfgVars>>

\* a connect that leaves a pool behind when it fails
Connect_PoolAssigned(next) ==
    /\ pc = "connect"
    /\ \E ok \in BOOLEAN :
         IF ok
         THEN /\ pool' = TRUE
              /\ opened' = opened + 1
              /\ open' = open + 1
              /\ run' = [run EXCEPT !.connect = "ok"]
              /\ pc' = next
              /\ UNCHANGED ret
         ELSE /\ ret' = [kind |-> "return", value |-> FailureResult(ConnectError)]
              /\ run' = [run EXCEPT !.connect = "failed"]
              /\ pc' = "finally"
              /\ pool' = TRUE
              /\ opened' = opened + 1
              /\ open' = open + 1
    /\ UNCHANGED <<config, setConfigCalled, lastSetConfig, lastCall, commands, dispatched,
                   registered, setupDone, cur, settled>>
    /\ UNCHANGED <<envVars, db, helperVars, apiVars, cfgVars>>

\* pool = await sql.connect(config), in the try block of either task
Connect(next) ==
    /\ pc = "connect"
    /\ \E ok \in BOOLEAN :
         IF ok
         THEN /\ pool' = TRUE
              /\ opened' = opened + 1
              /\ open' = open + 1
              /\ run' = [run EXCEPT !.connect = "ok"]
              /\ pc' = next
              /\ UNCHANGED ret
         ELSE /\ ret' = [kind |-> "return", value |-> FailureResult(ConnectError)]
              /\ run' = [run EXCEPT !.connect = "failed"]
              /\ pc' = "finally"
              /\ UNCHANGED <<pool, opened, open>>
    /\ UNCHANGED <<config, setConfigCalled, lastSetConfig, lastCall, commands, dispatched,
                   registered, setupDone, cur, settled>>
    /\ UNCHANGED <<envVars, db, helperVars, apiVars, cfgVars>>

\* the SQL text the verification helpers build
CountWhere(tableName, whereClause) ==
    "SELECT COUNT(*) as count FROM " \o tableName \o " WHERE " \o whereClause

CountAll(tableName) == "SELECT COUNT(*) as count FROM " \o tableName

SelectField(fieldName, tableName, whereClause) ==
    "SELECT " \o fieldName \o " FROM " \o tableName \o " WHERE " \o whereClause

DeleteWhere(tableName, whereClause) ==
    "DELETE FROM " \o tableName \o " WHERE " \o whereClause

\* the server evaluates a where clause on a row
Matches(row, whereClause) ==
    CASE whereClause = "status = 'active'" -> row.status.v = "active"
      [] whereClause = "age = 1" -> row.age.v = "1"

Matching(rows, whereClause) ==
    LET Test(row) == Matches(row, whereClause) IN SelectSeq(rows, Test)

NotMatching(rows, whereClause) ==
    LET Test(row) == ~Matches(row, whereClause) IN SelectSeq(rows, Test)

\* what the server answers to a statement on the table: the result the
\* client returns and the rows the table is left with
CountWhereAnswer(whereClause) ==
    [result |-> [recordset |-> <<[count |-> Len(Matching(db, whereClause))]>>,
                 rowsAffected |-> <<1>>],
     rows |-> db]

CountAllAnswer ==
    [result |-> [recordset |-> <<[count |-> Len(db)]>>, rowsAffected |-> <<1>>],
     rows |-> db]

SelectFieldAnswer(fieldName, whereClause) ==
    LET selected == Matching(db, whereClause) IN
    [result |-> [recordset |-> [i \in DOMAIN selected |->
                                   [f \in {fieldName} |-> selected[i][f]]],
                 rowsAffected |-> <<Len(selected)>>],
     rows |-> db]

DeleteWhereAnswer(whereClause) ==
    [result |-> [recordset |-> UndefinedObject,
                 rowsAffected |-> <<Len(Matching(db, whereClause))>>],
     rows |-> NotMatching(db, whereClause)]

\* the answers the server can give to a query; none when the text is no
\* valid statement
Answers(query) ==
    IF ~ValidSql(query)
    THEN {}
    ELSE IF query = "SELECT"
    THEN {[result |-> result, rows |-> db] : result \in SqlResults}
    ELSE {CountWhereAnswer(w) :
             w \in {w \in WhereClauses : \E t \in Tables : query = CountWhere(t, w)}}
         \cup {CountAllAnswer : t \in {t \in Tables : query = CountAll(t)}}
         \cup UNION {{SelectFieldAnswer(f, w) :
                         w \in {w \in WhereClauses :
                                   \E t \in Tables : query = SelectField(f, t, w)}} :
                     f \in Fields}
         \cup {DeleteWhereAnswer(w) :
                 w \in {w \in WhereClauses : \E t \in Tables : query = DeleteWhere(t, w)}}

\* the answers the server can give to the execution of a procedure
ProcedureAnswers == {[result |-> result, rows |-> db] : result \in SqlResults}

\* the execution of the statement or procedure, and the return or catch
\* that follows it
Execute(answers) ==
    /\ \E ok \in BOOLEAN :
         IF ok /\ answers # {}
         THEN \E answer \in answers :
                /\ ret' = [kind |-> "return", value |-> SuccessResult(answer.result)]
                /\ run' = [run EXCEPT !.execute = "ok"]
                /\ db' = answer.rows
         ELSE /\ ret' = [kind |-> "return", value |-> FailureResult(RequestError)]
              /\ run' = [run EXCEPT !.execute = "failed"]
              /\ UNCHANGED db
    /\ pc' = "finally"
    /\ UNCHANGED <<config, setConfigCalled, lastSetConfig, lastCall, commands, dispatched,
                   registered, setupDone, cur, pool, opened, open, settled>>
    /\ UNCHANGED <<envVars, helperVars, apiVars, cfgVars>>

\* finally { if (pool) { await pool.close(); } }: an exception of close
\* leaves the finally block and replaces the recorded return; the rejected
\* task fails its command, and the commands queued behind it are skipped
Finally ==
    /\ pc = "finally"
    /\ IF pool
       THEN \E ok \in BOOLEAN :
              IF ok
              THEN /\ open' = open - 1
                   /\ Settle("resolved", ret.value, "ok")
                   /\ UNCHANGED commands
              ELSE /\ \E released \in BOOLEAN :
                        open' = IF released THEN open - 1 ELSE open
                   /\ Settle("rejected", [error |-> CloseError], "failed")
                   /\ commands' = <<>>
       ELSE /\ UNCHANGED <<open, commands>>
            /\ Settle("resolved", ret.value, "none")
    /\ UNCHANGED <<config, setConfigCalled, lastSetConfig, lastCall, dispatched,
                   registered, setupDone, opened>>
    /\ UNCHANGED <<envVars, db, helperVars, apiVars, cfgVars>>

\* async function executeQuery({ query, config })
executeQuery_connect ==
    /\ cur.task = "dbQuery"
    /\ Connect("query")

executeQuery_query ==
    /\ cur.task = "dbQuery"
    /\ pc = "query"
    /\ Execute(Answers(cur.arg.query))

executeQuery_finally ==
    /\ cur.task = "dbQuery"
    /\ Finally

executeQuery ==
    \/ executeQuery_connect
    \/ executeQuery_query
    \/ executeQuery_finally

\* no default: an omitted value stays undefined, as null does
DefaultParameters_None(parameters) ==
    IF parameters = UndefinedObject THEN NullObject ELSE parameters

\* parameters = {} : the default replaces an omitted value only
DefaultParameters(parameters) ==
    IF parameters = UndefinedObject THEN Object(<<>>) ELSE parameters

\* async function executeStoredProcedure({ procedureName, parameters, config })
executeStoredProcedure_connect ==
    /\ cur.task = "dbStoredProcedure"
    /\ Connect("input")

\* Object.keys(parameters).forEach((key) => request.input(key, ...)):
\* Object.keys throws on null; request.input may throw at any key
executeStoredProcedure_input ==
    /\ cur.task = "dbStoredProcedure"
    /\ pc = "input"
    /\ LET parameters == DefaultParameters(cur.arg.parameters) IN
         IF parameters = NullObject
         THEN /\ ret' = [kind |-> "return", value |-> FailureResult(KeysError)]
              /\ pc' = "finally"
              /\ UNCHANGED run
         ELSE \E n \in 0..Len(parameters.keys) :
                /\ run' = [run EXCEPT !.bound = SubSeq(parameters.keys, 1, n)]
                /\ IF n = Len(parameters.keys)
                   THEN /\ pc' = "execute"
                        /\ UNCHANGED ret
                   ELSE /\ ret' = [kind |-> "return",
                                   value |-> FailureResult(BindError)]
                        /\ pc' = "finally"
    /\ UNCHANGED <<config, setConfigCalled, lastSetConfig, lastCall, commands, dispatched,
                   registered, setupDone, cur, pool, opened, open, settled>>
    /\ UNCHANGED <<envVars, db, helperVars, apiVars, cfgVars>>

executeStoredProcedure_execute ==
    /\ cur.task = "dbStoredProcedure"
    /\ pc = "execute"
    /\ Execute(ProcedureAnswers)

executeStoredProcedure_finally ==
    /\ cur.task = "dbStoredProcedure"
    /\ Finally

executeStoredProcedure ==
    \/ executeStoredProcedure_connect
    \/ executeStoredProcedure_input
    \/ executeStoredProcedure_execute
    \/ executeStoredProcedure_finally

\* export function registerDatabaseTasks(on): on('task', { dbQuery, dbStoredProcedure })
registerDatabaseTasks ==
    /\ registered' = registered \cup {"dbQuery", "dbStoredProcedure"}
    /\ UNCHANGED <<config, setConfigCalled, lastSetConfig, lastCall, commands, dispatched,
                   setupDone, pc, cur, pool, ret, run, opened, open, settled>>
    /\ UNCHANGED <<envVars, db, helperVars, apiVars, cfgVars>>

(***************************************************************************)
(* cypress.config.ts: the environment configuration and the run            *)
(* configuration.                                                          *)
(***************************************************************************)

\* values process.env.ENV can have at process start (Undefined: not set)
EnvValues == {Undefined, "", "dev", "qa", "staging", "prod", "database", "nope"}

BaseUrls == {"https://dev.yourapp.com", "https://qa.yourapp.com"}
EnvTags == {"dev", "qa"}

\* export default { baseUrl: ..., env: { environment: ... } }
EnvironmentConfigs ==
    {[baseUrl |-> u, env |-> [environment |-> t]] : u \in BaseUrls, t \in EnvTags}

\* what require(`./cypress/config/${environment}.config.ts`) can meet: no
\* such file, a file whose evaluation throws, a module without a default
\* export (named exports only), a module with a default export
Artifacts ==
    {[kind |-> "missing"], [kind |-> "throws"], [kind |-> "no default"]}
    \cup {[kind |-> "module", default |-> c] : c \in EnvironmentConfigs}

NoArtifact == [kind |-> "none"]

\* envConfig = { baseUrl: 'https://example.cypress.io' }
DefaultEnvConfig == [baseUrl |-> "https://example.cypress.io"]

\* the default applied to a missing value only (?? in place of ||)
SelectEnvironment_Nullish(value) == IF value = Undefined THEN "dev" ELSE value

\* const environment = process.env.ENV || 'dev';
SelectEnvironment(value) == IF Falsy(value) THEN "dev" ELSE value

\* `./cypress/config/${environment}.config.ts`
ConfigPath(name) == [dir |-> "./cypress/config/", name |-> name, ext |-> ".config.ts"]

NoPath == [dir |-> "", name |-> "", ext |-> ""]

\* a catch that handles the missing file only
RequireThrows_MissingOnly(a) == a.kind = "missing"

\* require(...) throws
RequireThrows(a) == a.kind \in {"missing", "throws"}

\* require(...).default
DefaultExport(a) == IF a.kind = "module" THEN a.default ELSE UndefinedObject

\* { ...envConfig, setupNodeEvents(on, config) {...} }
E2e(c) ==
    IF c = UndefinedObject
    THEN [setupNodeEvents |-> TRUE]
    ELSE IF "env" \in DOMAIN c
         THEN [baseUrl |-> c.baseUrl, env |-> c.env, setupNodeEvents |-> TRUE]
         ELSE [baseUrl |-> c.baseUrl, setupNodeEvents |-> TRUE]

\* line 4: the environment is read once, when the module is evaluated
ReadEnvironment ==
    /\ envPc = "start"
    /\ \E value \in EnvValues :
         /\ ENV' = value
         /\ environment' = SelectEnvironment(value)
    /\ envPc' = "load"
    /\ UNCHANGED <<required, artifact, envConfig, warned, e2e>>
    /\ UNCHANGED <<dbVars, db, helperVars, apiVars, cfgVars>>

\* lines 7-13: try { envConfig = require(...).default } catch { warn; default }
LoadEnvConfig ==
    /\ envPc = "load"
    /\ required' = ConfigPath(environment)
    /\ \E a \in Artifacts :
         /\ artifact' = a
         /\ IF RequireThrows(a)
            THEN /\ warned' = TRUE
                 /\ envConfig' = DefaultEnvConfig
            ELSE /\ envConfig' = DefaultExport(a)
                 /\ UNCHANGED warned
    /\ envPc' = "define"
    /\ UNCHANGED <<ENV, environment, e2e>>
    /\ UNCHANGED <<dbVars, db, helperVars, apiVars, cfgVars>>

\* lines 15-33: export default defineConfig({ ..., e2e: {...} })
DefineConfig ==
    /\ envPc = "define"
    /\ e2e' = E2e(envConfig)
    /\ envPc' = "defined"
    /\ UNCHANGED <<ENV, environment, required, artifact, envConfig, warned>>
    /\ UNCHANGED <<dbVars, db, helperVars, apiVars, cfgVars>>

\* lines 28-31: the runner calls setupNodeEvents once, before any test runs;
\* it installs the reporter plugin and returns the configuration
setupNodeEvents ==
    /\ envPc = "defined"
    /\ ~setupDone
    /\ setupDone' = TRUE
    /\ UNCHANGED registered
    /\ UNCHANGED <<config, setConfigCalled, lastSetConfig, lastCall, commands, dispatched, pc,
                   cur, pool, ret, run, opened, open, settled>>
    /\ UNCHANGED <<envVars, db, helperVars, apiVars, cfgVars>>

(***************************************************************************)
(* ApiHelper: the request operations and the verification helpers.         *)
(* cy.request and the chai assertions are external: cy.request yields any  *)
(* response the server can give or fails; an assertion passes or raises.   *)
(***************************************************************************)

\* JavaScript values of the types a JSON body and a test's expectation use;
\* v is the value's text, t its type
Num(s) == [t |-> "number", v |-> s]
Str(s) == [t |-> "string", v |-> s]
Fn(s) == [t |-> "function", v |-> s]
UndefinedValue == [t |-> "undefined", v |-> ""]

\* x === y
StrictEquals(x, y) == x.t = y.t /\ x.v = y.v

\* x == y between numbers and strings: the string is converted to a number
LooseEquals(x, y) == x.v = y.v /\ {x.t, y.t} \subseteq {"number", "string"}

\* an object given by its own entries, a set of <<key, value>>
Map(entries) == [kind |-> "object", entries |-> entries]

OwnKeys(object) == {entry[1] : entry \in object.entries}

\* the properties every object inherits from Object.prototype
ObjectPrototype == {"constructor", "toString", "hasOwnProperty"}

\* name in object
In(name, object) == name \in OwnKeys(object) \/ name \in ObjectPrototype

\* object[name]
Get(object, name) ==
    IF name \in OwnKeys(object)
    THEN (CHOOSE entry \in object.entries : entry[1] = name)[2]
    ELSE IF name \in ObjectPrototype THEN Fn(name) ELSE UndefinedValue

\* the same for an object whose keys are sequences of characters
ObjectPrototypeChars == {<<"c", "o", "n", "s", "t", "r", "u", "c", "t", "o", "r">>}

\* strings whose characters matter are sequences of characters
UpperCase == <<"A", "D", "E", "G", "I", "N", "O", "P", "Q", "R", "S", "T", "U", "V">>
LowerCase == <<"a", "d", "e", "g", "i", "n", "o", "p", "q", "r", "s", "t", "u", "v">>

\* String.prototype.toLowerCase, character by character
ToLowerCase(s) ==
    [i \in DOMAIN s |->
        IF \E k \in DOMAIN UpperCase : UpperCase[k] = s[i]
        THEN LowerCase[CHOOSE k \in DOMAIN UpperCase : UpperCase[k] = s[i]]
        ELSE s[i]]

\* chai's include on a string: sub occurs in s
Includes(s, sub) ==
    \E i \in 1..(Len(s) + 1) :
        /\ i + Len(sub) - 1 <= Len(s)
        /\ SubSeq(s, i, i + Len(sub) - 1) = sub

\* an optional string argument
Omitted == [given |-> FALSE]
Given(s) == [given |-> TRUE, v |-> s]

\* if (expectedValue): undefined and the empty string are falsy
Truthy(optional) == optional.given /\ optional.v # <<>>

MaxDuration == 2   \* response.duration, in milliseconds

Urls == {"/posts/1"}
Statuses == {200, 201, 404, 500}
Payloads == {Map({<<"title", Str("foo")>>})}
HeaderArgs == {UndefinedObject, Map({<<"Accept", "application/json">>})}
Bodies == {Map({}), Map({<<"id", Num("1")>>}), Map({<<"id", Str("1")>>}),
           Map({<<"id", Num("2")>>, <<"title", Str("foo")>>})}
PropertyNames == {"id", "title", "toString"}
PropertyValues == {Num("1"), Str("1"), Str("foo"), UndefinedValue}

ETag == <<"E", "T", "a", "g">>
ETAG == <<"E", "T", "A", "G">>
etag == <<"e", "t", "a", "g">>
age == <<"a", "g", "e">>
HeaderNames ==
    {ETag, ETAG, etag, age, <<"c", "o", "n", "s", "t", "r", "u", "c", "t", "o", "r">>}
HeaderValue == <<"W", "/", "1">>
ExpectedValues == {Omitted, Given(<<>>), Given(<<"/", "1">>), Given(<<"1", "W">>)}
\* cy.request gives the header names in lower case, as Node's http does
ReceivedHeaders == {Map({}), Map({<<etag, HeaderValue>>})}
\* a response object that did not come from cy.request (a stub, a fixture)
\* may keep the header names as they were written
StubbedHeaders == ReceivedHeaders \cup {Map({<<ETag, HeaderValue>>})}

NoApiCall == [op |-> "none"]
NoRequest == [method |-> "none"]
NoResponse == [kind |-> "none"]
Pending == [kind |-> "pending"]
NoCheck == [op |-> "none"]

\* the options with failOnStatusCode left at cy.request's default
RequestOptions_FailOnStatusCode(method, url, headers) ==
    [method |-> method, url |-> url,
     headers |-> IF headers \in {UndefinedObject, NullObject} THEN Map({}) ELSE headers,
     failOnStatusCode |-> TRUE]

\* { method, url, headers: headers || {}, failOnStatusCode: false }
RequestOptions(method, url, headers) ==
    [method |-> method, url |-> url,
     headers |-> IF headers \in {UndefinedObject, NullObject} THEN Map({}) ELSE headers,
     failOnStatusCode |-> FALSE]

\* { method, url, body, headers: headers || {}, failOnStatusCode: false }
RequestOptionsWithBody(method, url, body, headers) ==
    [method |-> method, url |-> url, body |-> body,
     headers |-> RequestOptions(method, url, headers).headers,
     failOnStatusCode |-> RequestOptions(method, url, headers).failOnStatusCode]

\* return cy.request(options): one command is issued and its result is
\* what the call yields
cy_request_issue(options) ==
    /\ response # Pending
    /\ request' = options
    /\ sent' = 1
    /\ response' = Pending
    /\ check' = NoCheck
    /\ UNCHANGED <<dbVars, envVars, db, helperVars, cfgVars>>

\* static get(url, headers?)
ApiHelper_get(url, headers) ==
    /\ call' = [op |-> "get", url |-> url, headers |-> headers]
    /\ cy_request_issue(RequestOptions("GET", url, headers))

\* static post(url, body, headers?)
ApiHelper_post(url, body, headers) ==
    /\ call' = [op |-> "post", url |-> url, body |-> body, headers |-> headers]
    /\ cy_request_issue(RequestOptionsWithBody("POST", url, body, headers))

\* static put(url, body, headers?)
ApiHelper_put(url, body, headers) ==
    /\ call' = [op |-> "put", url |-> url, body |-> body, headers |-> headers]
    /\ cy_request_issue(RequestOptionsWithBody("PUT", url, body, headers))

\* static delete(url, headers?)
ApiHelper_delete(url, headers) ==
    /\ call' = [op |-> "delete", url |-> url, headers |-> headers]
    /\ cy_request_issue(RequestOptions("DELETE", url, headers))

\* a status cy.request accepts when failOnStatusCode is true: 2xx and 3xx
StatusOk(status) == status \div 100 \in {2, 3}

Response(status, body, headers, duration) ==
    [kind |-> "yielded", status |-> status, body |-> body, headers |-> headers,
     duration |-> duration]

\* the runner performs the request: the server answers with any status, or
\* the request fails on the network; the command fails for the status only
\* when failOnStatusCode is true
cy_request ==
    /\ response = Pending
    /\ \/ \E status \in Statuses, body \in Bodies, headers \in ReceivedHeaders,
             duration \in 0..MaxDuration :
            response' = IF request.failOnStatusCode /\ ~StatusOk(status)
                        THEN [kind |-> "failed", reason |-> "status", status |-> status]
                        ELSE Response(status, body, headers, duration)
       \/ response' = [kind |-> "failed", reason |-> "network"]
    /\ UNCHANGED <<call, request, sent, check>>
    /\ UNCHANGED <<dbVars, envVars, db, helperVars, cfgVars>>

\* the test hands the helpers a response object of its own
StubbedResponse ==
    /\ response # Pending
    /\ \E headers \in StubbedHeaders :
         response' = Response(200, Map({}), headers, 0)
    /\ call' = NoApiCall
    /\ request' = NoRequest
    /\ sent' = 0
    /\ check' = NoCheck
    /\ UNCHANGED <<dbVars, envVars, db, helperVars, cfgVars>>

\* the comparison of the status class only
verifyStatusCode_SameClass(r, expectedStatus) ==
    r.status \div 100 = expectedStatus \div 100

\* expect(response.status).to.eq(expectedStatus)
verifyStatusCode(r, expectedStatus) == r.status = expectedStatus

\* expect(response.body).to.have.property(property): chai looks the
\* property up with `in`, inherited properties included
verifyBodyProperty(r, property) == In(property, r.body)

\* the comparison with type coercion
verifyBodyPropertyValue_Loose(r, property, value) ==
    \/ StrictEquals(Get(r.body, property), value)
    \/ LooseEquals(Get(r.body, property), value)

\* expect(response.body[property]).to.eq(value)
verifyBodyPropertyValue(r, property, value) ==
    StrictEquals(Get(r.body, property), value)

\* the lookup of the header under the name as written
verifyHeader_AsWritten(r, headerName, expectedValue) ==
    /\ headerName \in OwnKeys(r.headers) \cup ObjectPrototypeChars
    /\ Truthy(expectedValue) =>
         /\ headerName \in OwnKeys(r.headers)
         /\ Includes((CHOOSE entry \in r.headers.entries : entry[1] = headerName)[2],
                     expectedValue.v)

\* expect(response.headers).to.have.property(headerName.toLowerCase());
\* if (expectedValue) { expect(response.headers[...]).to.include(expectedValue) }
\* (have.property looks the name up with `in`; include raises on a value
\* that is no string)
verifyHeader(r, headerName, expectedValue) ==
    /\ ToLowerCase(headerName) \in OwnKeys(r.headers) \cup ObjectPrototypeChars
    /\ Truthy(expectedValue) =>
         /\ ToLowerCase(headerName) \in OwnKeys(r.headers)
         /\ Includes((CHOOSE entry \in r.headers.entries :
                          entry[1] = ToLowerCase(headerName))[2],
                     expectedValue.v)

\* the comparison that admits the limit itself
verifyResponseTime_AtMost(r, maxDuration) == r.duration <= maxDuration

\* expect(response.duration).to.be.lessThan(maxDuration)
verifyResponseTime(r, maxDuration) == r.duration < maxDuration

\* a verification helper is called on the response at hand; it returns or
\* raises the assertion's failure
Verify(op, args, passed) ==
    /\ response.kind = "yielded"
    /\ check' = [op |-> op, args |-> args, passed |-> passed]
    /\ UNCHANGED <<call, request, sent, response>>
    /\ UNCHANGED <<dbVars, envVars, db, helperVars, cfgVars>>

ApiHelper_verifyStatusCode ==
    \E expectedStatus \in Statuses :
        Verify("verifyStatusCode", [expectedStatus |-> expectedStatus],
               response.kind = "yielded" /\ verifyStatusCode(response, expectedStatus))

ApiHelper_verifyBodyProperty ==
    \E property \in PropertyNames :
        Verify("verifyBodyProperty", [property |-> property],
               response.kind = "yielded" /\ verifyBodyProperty(response, property))

ApiHelper_verifyBodyPropertyValue ==
    \E property \in PropertyNames, value \in PropertyValues :
        Verify("verifyBodyPropertyValue", [property |-> property, value |-> value],
               response.kind = "yielded"
               /\ verifyBodyPropertyValue(response, property, value))

ApiHelper_verifyHeader ==
    \E headerName \in HeaderNames, expectedValue \in ExpectedValues :
        Verify("verifyHeader",
               [headerName |-> headerName, expectedValue |-> expectedValue],
               response.kind = "yielded"
               /\ verifyHeader(response, headerName, expectedValue))

ApiHelper_verifyResponseTime ==
    \E maxDuration \in 0..(MaxDuration + 1) :
        Verify("verifyResponseTime", [maxDuration |-> maxDuration],
               response.kind = "yielded" /\ verifyResponseTime(response, maxDuration))

(***************************************************************************)
(* DbHelper: the verification helpers built on query. Each builds its SQL  *)
(* text, calls this.query and chains a callback on the command; the        *)
(* callback runs when the command yields, and a failed command or a failed *)
(* assertion fails the test.                                               *)
(***************************************************************************)

\* the rows a where clause argument selects now
MatchCount(whereClause) ==
    IF Falsy(whereClause) THEN Len(db) ELSE Len(Matching(db, whereClause))

\* the latest helper was a deleteRecords on this predicate that yielded a
\* successful result
AfterDelete(tableName, whereClause) ==
    /\ verdict.op = "deleteRecords"
    /\ verdict.outcome = "yielded"
    /\ verdict.value.success
    /\ verdict.args.tableName = tableName
    /\ verdict.args.whereClause = whereClause

\* this.query(query).then(callback): query throws when no configuration is
\* set, and with it the helper; otherwise the callback waits for the command
Chain(op, args, query) ==
    /\ helper = NoHelper
    /\ commands = <<>>
    /\ this_query(query, Undefined)
    /\ IF getConfig.threw
       THEN /\ verdict' = [op |-> op, args |-> args, outcome |-> "failed",
                           how |-> "threw", value |-> UndefinedObject,
                           message |-> ConfigNotSet,
                           matching |-> MatchCount(args.whereClause),
                           afterDelete |-> AfterDelete(args.tableName, args.whereClause)]
            /\ UNCHANGED helper
       ELSE /\ helper' = [op |-> op, args |-> args,
                          matching |-> MatchCount(args.whereClause),
                          afterDelete |-> AfterDelete(args.tableName, args.whereClause)]
            /\ verdict' = NoVerdict

\* static verifyRecordExists(tableName, whereClause)
DbHelper_verifyRecordExists(tableName, whereClause) ==
    Chain("verifyRecordExists", [tableName |-> tableName, whereClause |-> whereClause],
          CountWhere(tableName, whereClause))

\* static verifyRecordNotExists(tableName, whereClause)
DbHelper_verifyRecordNotExists(tableName, whereClause) ==
    Chain("verifyRecordNotExists", [tableName |-> tableName, whereClause |-> whereClause],
          CountWhere(tableName, whereClause))

\* the count query without its restriction
getRecordCount_query_Unrestricted(tableName, whereClause) == CountAll(tableName)

\* const query = whereClause ? `... WHERE ${whereClause}` : `...`
getRecordCount_query(tableName, whereClause) ==
    IF Falsy(whereClause) THEN CountAll(tableName) ELSE CountWhere(tableName, whereClause)

\* static getRecordCount(tableName, whereClause?)
DbHelper_getRecordCount(tableName, whereClause) ==
    Chain("getRecordCount", [tableName |-> tableName, whereClause |-> whereClause],
          getRecordCount_query(tableName, whereClause))

\* static verifyFieldValue(tableName, fieldName, expectedValue, whereClause)
DbHelper_verifyFieldValue(tableName, fieldName, expectedValue, whereClause) ==
    Chain("verifyFieldValue",
          [tableName |-> tableName, fieldName |-> fieldName,
           expectedValue |-> expectedValue, whereClause |-> whereClause],
          SelectField(fieldName, tableName, whereClause))

\* a statement that counts the rows and deletes none
deleteRecords_query_Count(tableName, whereClause) == CountWhere(tableName, whereClause)

\* const query = `DELETE FROM ${tableName} WHERE ${whereClause}`
deleteRecords_query(tableName, whereClause) == DeleteWhere(tableName, whereClause)

\* static deleteRecords(tableName, whereClause)
DbHelper_deleteRecords(tableName, whereClause) ==
    Chain("deleteRecords", [tableName |-> tableName, whereClause |-> whereClause],
          deleteRecords_query(tableName, whereClause))

\* the callback with a count that may be zero
verifyRecordExists_then_AtLeast(result) ==
    /\ result.success
    /\ result.data[1].count >= 0

\* expect(result.success).to.be.true;
\* expect(result.data![0].count).to.be.greaterThan(0)
verifyRecordExists_then(result) ==
    /\ result.success
    /\ result.data[1].count > 0

\* expect(result.success).to.be.true; expect(result.data![0].count).to.eq(0)
verifyRecordNotExists_then(result) ==
    /\ result.success
    /\ result.data[1].count = 0

\* expect(result.success).to.be.true: the callback returns when it holds
getRecordCount_then(result) == result.success

\* return result.data![0].count
getRecordCount_value(result) == result.data[1].count

\* the callback that accepts the value in any row
verifyFieldValue_then_AnyRow(result, fieldName, expectedValue) ==
    /\ result.success
    /\ \E i \in DOMAIN result.data : StrictEquals(result.data[i][fieldName], expectedValue)

\* expect(result.success).to.be.true;
\* expect(result.data).to.have.length.greaterThan(0);
\* expect(result.data![0][fieldName]).to.eq(expectedValue)
verifyFieldValue_then(result, fieldName, expectedValue) ==
    /\ result.success
    /\ Len(result.data) > 0
    /\ StrictEquals(result.data[1][fieldName], expectedValue)

CannotReadData == "Cannot read properties of undefined (reading '0')"

\* the callbacks reading result.data before they look at result.success
FirstFailure_DataFirst(op, args, result) ==
    IF op = "deleteRecords"
    THEN ""
    ELSE IF "data" \notin DOMAIN result
    THEN CannotReadData
    ELSE IF ~result.success
    THEN "Database query should succeed"
    ELSE ""

\* the message of the first expect of the helper's callback that fails on
\* the result, "" when none does; reading result.data![0] of a result
\* without data is a TypeError, and chai's length assertion fails on it
FirstFailure(op, args, result) ==
    IF op = "deleteRecords"
    THEN ""
    ELSE IF ~result.success
    THEN "Database query should succeed"
    ELSE IF op = "getRecordCount"
    THEN IF "data" \in DOMAIN result THEN "" ELSE CannotReadData
    ELSE IF op = "verifyRecordExists"
    THEN IF "data" \notin DOMAIN result
         THEN CannotReadData
         ELSE IF result.data[1].count > 0
              THEN ""
              ELSE "Record should exist in " \o args.tableName
    ELSE IF op = "verifyRecordNotExists"
    THEN IF "data" \notin DOMAIN result
         THEN CannotReadData
         ELSE IF result.data[1].count = 0
              THEN ""
              ELSE "Record should not exist in " \o args.tableName
    ELSE IF "data" \notin DOMAIN result
         THEN "Record should exist"
         ELSE IF Len(result.data) = 0
              THEN "Record should exist"
              ELSE IF StrictEquals(result.data[1][args.fieldName], args.expectedValue)
                   THEN ""
                   ELSE "Field " \o args.fieldName \o " should match expected value"

\* how the helper ends and what its chain yields, given how its command
\* ended; a failed callback leaves the message of the expect that failed
Verdict(outcome, how, value) ==
    [op |-> helper.op, args |-> helper.args, outcome |-> outcome, how |-> how,
     value |-> value,
     message |-> IF how = "callback"
                 THEN FirstFailure(helper.op, helper.args, settled.value)
                 ELSE "",
     matching |-> helper.matching,
     afterDelete |-> helper.afterDelete]

\* a callback of assertions only: the chain yields nothing
Passed(passes) ==
    Verdict(IF passes THEN "passed" ELSE "failed", "callback", UndefinedObject)

\* the command of the pending helper has ended: a failed command fails
\* the test, a result is handed to the helper's callback
DbHelper_then ==
    /\ helper # NoHelper
    /\ pc = "idle"
    /\ commands = <<>>
    /\ verdict' =
         IF settled.outcome # "resolved"
         THEN Verdict("failed", "command failed", UndefinedObject)
         ELSE CASE helper.op = "verifyRecordExists" ->
                     Passed(verifyRecordExists_then(settled.value))
                [] helper.op = "verifyRecordNotExists" ->
                     Passed(verifyRecordNotExists_then(settled.value))
                [] helper.op = "getRecordCount" ->
                     IF getRecordCount_then(settled.value)
                     THEN Verdict("yielded", "callback",
                                  getRecordCount_value(settled.value))
                     ELSE Verdict("failed", "callback", UndefinedObject)
                [] helper.op = "verifyFieldValue" ->
                     Passed(verifyFieldValue_then(settled.value, helper.args.fieldName,
                                                  helper.args.expectedValue))
                [] helper.op = "deleteRecords" ->
                     Verdict("yielded", "callback", settled.value)
    /\ helper' = NoHelper
    /\ UNCHANGED <<dbVars, envVars, db, apiVars, cfgVars>>

(***************************************************************************)
(* database.config.example.ts: the database configuration of each          *)
(* environment and getDbConfig. Environment names are sequences of         *)
(* characters.                                                             *)
(***************************************************************************)
devDbConfig ==
    [server |-> "localhost", database |-> "TestDB", user |-> "sa",
     password |-> "YourPassword123", port |-> 1433,
     options |-> [encrypt |-> FALSE, trustServerCertificate |-> TRUE]]
qaDbConfig ==
    [server |-> "qa-server.example.com", database |-> "TestDB_QA",
     user |-> "qa_user", password |-> "QAPassword123", port |-> 1433,
     options |-> [encrypt |-> TRUE, trustServerCertificate |-> FALSE]]
stagingDbConfig ==
    [server |-> "staging-server.example.com", database |-> "TestDB_Staging",
     user |-> "staging_user", password |-> "StagingPassword123", port |-> 1433,
     options |-> [encrypt |-> TRUE, trustServerCertificate |-> FALSE]]

qa == <<"q", "a">>
dev == <<"d", "e", "v">>
staging == <<"s", "t", "a", "g", "i", "n", "g">>
\* the names of the switch, 'prod', an unknown name and the empty string
EnvironmentNames ==
    {qa, dev, staging, <<"p", "r", "o", "d">>, <<"u", "a", "t">>, <<>>}

\* the spellings of a name in upper-case and lower-case letters
Casings(name) ==
    LET Upper(c) == UpperCase[CHOOSE k \in DOMAIN LowerCase : LowerCase[k] = c]
    IN  {[i \in DOMAIN name |-> IF i \in upper THEN Upper(name[i]) ELSE name[i]] :
            upper \in SUBSET DOMAIN name}

NullValue == [t |-> "null", v |-> <<>>]
UndefinedName == [t |-> "undefined", v |-> <<>>]

\* what a caller passes: nothing, Cypress.env('environment') of an unset
\* variable (undefined), null, or a string
EnvironmentArgs ==
    {Omitted, Given(UndefinedName), Given(NullValue)}
        \cup {Given(Str(spelling)) :
                 spelling \in UNION {Casings(name) : name \in EnvironmentNames}}

NotCalled == [kind |-> "none"]
Return(value) == [kind |-> "return", value |-> value]
TypeError == [kind |-> "throw", error |-> "TypeError"]

\* environment: string = 'dev': the default stands for an argument that is
\* omitted or undefined
DefaultEnvironment(arg) ==
    IF ~arg.given \/ arg.v.t = "undefined" THEN Str(dev) ELSE arg.v

\* switch (environment) without toLowerCase()
getDbConfig_CaseSensitive(arg) ==
    LET environment_ == DefaultEnvironment(arg)
    IN  IF environment_.t # "string"
        THEN TypeError
        ELSE IF environment_.v = qa THEN Return(qaDbConfig)
        ELSE IF environment_.v = staging THEN Return(stagingDbConfig)
        ELSE Return(devDbConfig)

\* switch (environment.toLowerCase()): 'qa', 'staging', 'dev' and default
getDbConfig(arg) ==
    LET environment_ == DefaultEnvironment(arg)
    IN  IF environment_.t # "string"
        THEN TypeError
        ELSE LET name == ToLowerCase(environment_.v)
             IN  IF name = qa THEN Return(qaDbConfig)
                 ELSE IF name = staging THEN Return(stagingDbConfig)
                 ELSE IF name = dev THEN Return(devDbConfig)
                 ELSE Return(devDbConfig)

\* a call of getDbConfig by test code
getDbConfig_call ==
    /\ \E arg \in EnvironmentArgs :
          /\ dbEnvironment' = arg
          /\ dbConfig' = getDbConfig(arg)
    /\ UNCHANGED <<dbVars, envVars, db, helperVars, apiVars>>

(***************************************************************************)
(* Specifications.                                                         *)
(***************************************************************************)
DbInit ==
    /\ config = Undefined
    /\ setConfigCalled = FALSE
    /\ lastSetConfig = Undefined
    /\ lastCall = NoCall
    /\ commands = <<>>
    /\ dispatched = 0
    /\ registered = {}
    /\ setupDone = FALSE
    /\ pc = "idle"
    /\ cur = NoTask
    /\ pool = FALSE
    /\ ret = NoRet
    /\ run = NoRun
    /\ opened = 0
    /\ open = 0
    /\ settled = NoSettled

\* the process starts: cypress.config.ts has not been evaluated
EnvInit ==
    /\ ENV = Undefined
    /\ environment = Undefined
    /\ envPc = "start"
    /\ required = NoPath
    /\ artifact = NoArtifact
    /\ envConfig = UndefinedObject
    /\ warned = FALSE
    /\ e2e = UndefinedObject

\* cypress.config.ts has been evaluated by a run with ENV not set
DevArtifact ==
    [kind |-> "module",
     default |-> [baseUrl |-> "https://dev.yourapp.com", env |-> [environment |-> "dev"]]]

EnvLoaded ==
    /\ ENV = Undefined
    /\ environment = SelectEnvironment(Undefined)
    /\ envPc = "defined"
    /\ required = ConfigPath(SelectEnvironment(Undefined))
    /\ artifact = DevArtifact
    /\ envConfig = DefaultExport(DevArtifact)
    /\ warned = FALSE
    /\ e2e = E2e(DefaultExport(DevArtifact))

\* the test code of a spec file: any DbHelper call with any arguments. Test
\* code runs in the body of a test or in the callback of a command, that is
\* after setupNodeEvents and between two commands, never during one
TestCode ==
    /\ setupDone
    /\ pc = "idle"
    /\ \/ \E c \in ConfigArgs : DbHelper_setConfig(c)
       \/ \E q \in Queries, c \in ConfigArgs : DbHelper_query(q, c)
       \/ \E n \in Procedures, p \in Parameters, c \in ConfigArgs :
            DbHelper_executeStoredProcedure(n, p, c)

\* no verification helper of DbHelper has been called
HelperInit ==
    /\ db = <<>>
    /\ helper = NoHelper
    /\ verdict = NoVerdict

\* no ApiHelper operation has been called
ApiInit ==
    /\ call = NoApiCall
    /\ request = NoRequest
    /\ sent = 0
    /\ response = NoResponse
    /\ check = NoCheck

\* getDbConfig has not been called
DbConfigInit ==
    /\ dbEnvironment = Omitted
    /\ dbConfig = NotCalled

Init == DbInit /\ EnvLoaded /\ HelperInit /\ ApiInit /\ DbConfigInit

Next ==
    \/ setupNodeEvents
    \/ registerDatabaseTasks
    \/ TestCode
    \/ cy_task
    \/ executeQuery
    \/ executeStoredProcedure

Spec == Init /\ [][Next]_vars

ConfigInit == DbInit /\ EnvInit /\ HelperInit /\ ApiInit /\ DbConfigInit

ConfigNext ==
    \/ ReadEnvironment
    \/ LoadEnvConfig
    \/ DefineConfig
    \/ setupNodeEvents

ConfigSpec == ConfigInit /\ [][ConfigNext]_vars

\* the tests start on a table of any content
HelperInit_Table ==
    /\ db \in Databases
    /\ helper = NoHelper
    /\ verdict = NoVerdict

\* the test code of a spec file of database tests: setConfig in the before
\* hook, then verification helpers one after the other
HelperCode ==
    /\ setupDone
    /\ pc = "idle"
    /\ \/ DbHelper_setConfig("cfgA") /\ helper = NoHelper
       \/ \E t \in Tables, w \in WhereClauses : DbHelper_verifyRecordExists(t, w)
       \/ \E t \in Tables, w \in WhereClauses : DbHelper_verifyRecordNotExists(t, w)
       \/ \E t \in Tables, w \in WhereArgs : DbHelper_getRecordCount(t, w)
       \/ \E t \in Tables, f \in Fields, v \in ExpectedFieldValues, w \in WhereClauses :
            DbHelper_verifyFieldValue(t, f, v, w)
       \/ \E t \in Tables, w \in WhereClauses : DbHelper_deleteRecords(t, w)

HelperNext ==
    \/ setupNodeEvents
    \/ registerDatabaseTasks
    \/ HelperCode
    \/ cy_task
    \/ executeQuery
    \/ DbHelper_then

HelperStart == DbInit /\ EnvLoaded /\ HelperInit_Table /\ ApiInit /\ DbConfigInit

HelperSpec == HelperStart /\ [][HelperNext]_vars

\* a spec file of API tests: request operations, each followed by the
\* verifications of its response
ApiNext ==
    \/ \E url \in Urls, headers \in HeaderArgs : ApiHelper_get(url, headers)
    \/ \E url \in Urls, body \in Payloads, headers \in HeaderArgs :
         ApiHelper_post(url, body, headers)
    \/ \E url \in Urls, body \in Payloads, headers \in HeaderArgs :
         ApiHelper_put(url, body, headers)
    \/ \E url \in Urls, headers \in HeaderArgs : ApiHelper_delete(url, headers)
    \/ cy_request
    \/ StubbedResponse
    \/ ApiHelper_verifyStatusCode
    \/ ApiHelper_verifyBodyProperty
    \/ ApiHelper_verifyBodyPropertyValue
    \/ ApiHelper_verifyHeader
    \/ ApiHelper_verifyResponseTime

ApiSpec == Init /\ [][ApiNext]_vars

DbConfigNext == getDbConfig_call

DbConfigSpec == Init /\ [][DbConfigNext]_vars

(***************************************************************************)
(* Properties.                                                             *)
(***************************************************************************)
DbTasks == {"dbQuery", "dbStoredProcedure"}

\* a task ran to its end (it was found and its promise settled)
TaskRan == settled.outcome \in {"resolved", "rejected"}

\* a step of the running task failed
SomethingFailed(r) ==
    \/ r.connect = "failed"
    \/ r.execute = "failed"
    \/ r.close = "failed"
    \/ r.connect = "ok" /\ r.execute = "none"

IsFailureResult(v) == DOMAIN v = {"success", "error"} /\ v.success = FALSE

IsSuccessResult(v) ==
    DOMAIN v = {"success", "data", "rowsAffected"} /\ v.success = TRUE

\* C1: a database task never rejects: whatever connect, the query or
\* procedure and close do, the task returns a DbResult, with success=false
\* and an error message when anything failed.
C1_TaskNeverRejects ==
    TaskRan =>
        /\ settled.outcome = "resolved"
        /\ IsFailureResult(settled.value) \/ IsSuccessResult(settled.value)
        /\ SomethingFailed(settled.run) => IsFailureResult(settled.value)

\* C2: a connection that a task opened is closed when the task has
\* finished: between database calls no connection is open.
C2_NoConnectionLeftOpen ==
    pc = "idle" => open = 0

\* C3 (as stated): a task is dispatched only if DbHelper.setConfig has been
\* called earlier, with or without a config override.
C3_DispatchOnlyAfterSetConfig ==
    dispatched > 0 => setConfigCalled

\* C3 (amended): a task is dispatched only if the call carries a config
\* override or DbHelper.setConfig has stored a configuration earlier; every
\* dispatched command carries a configuration.
C3_DispatchOnlyWithConfig ==
    /\ lastCall.outcome = "dispatched" =>
          \/ ~Falsy(lastCall.arg)
          \/ setConfigCalled /\ ~Falsy(config)
    /\ \A i \in 1..Len(commands) : ~Falsy(commands[i].arg.config)
    /\ cur # NoTask => ~Falsy(cur.arg.config)

C3_Witness ==
    /\ lastCall.outcome = "dispatched"
    /\ ~Falsy(lastCall.arg)
    /\ ~setConfigCalled
    /\ commands # <<>>

\* the latest DbHelper call was query or executeStoredProcedure without an
\* override while no configuration was stored
CalledWithoutConfig ==
    /\ lastCall.op \in {"query", "executeStoredProcedure"}
    /\ Falsy(lastCall.arg)
    /\ Falsy(config)

\* C4: query or executeStoredProcedure called without an override while no
\* configuration is stored raises 'Database configuration not set' at the
\* call; the call dispatches no task, opens no connection and leaves the
\* stored configuration unchanged.
C4_ThrowsWhenConfigNotSet ==
    /\ [](CalledWithoutConfig =>
            lastCall.outcome = "threw" /\ lastCall.error = ConfigNotSet)
    /\ [][(lastCall' # lastCall /\ lastCall'.outcome = "threw") =>
            UNCHANGED <<config, commands, dispatched, pc, cur, opened, open>>]_vars

C4_Witness ==
    /\ CalledWithoutConfig
    /\ lastCall.outcome = "threw"
    /\ setConfigCalled
    /\ dispatched > 0

\* C5: the result DbHelper.query yields has success=true if and only if
\* connecting and executing both completed without an exception, and
\* success=false otherwise.
C5_SuccessIffConnectedAndExecuted ==
    (TaskRan /\ settled.task = "dbQuery") =>
        /\ settled.outcome = "resolved"
        /\ settled.value.success <=>
              (settled.run.connect = "ok" /\ settled.run.execute = "ok")

\* C6: a query or executeStoredProcedure call without an override dispatches
\* its task with exactly the configuration given to the latest setConfig.
C6_DispatchUsesLatestSetConfig ==
    [][(dispatched' = dispatched + 1 /\ Falsy(lastCall'.arg)) =>
        commands'[Len(commands')].arg.config = lastSetConfig]_vars

C6_Witness ==
    /\ lastCall.outcome = "dispatched"
    /\ Falsy(lastCall.arg)
    /\ Len(commands) = 2
    /\ commands[1].arg.config = "cfgA"
    /\ commands[2].arg.config = "cfgB"
    /\ lastSetConfig = "cfgB"

\* C7: once setupNodeEvents has run, dbQuery and dbStoredProcedure are
\* registered, so no dispatched task fails as an unknown task.
C7_TasksRegisteredBySetup ==
    setupDone =>
        /\ DbTasks \subseteq registered
        /\ settled.outcome # "task not found"

\* the baseUrl of an object, Undefined when it has none
BaseUrlOf(object) ==
    IF "baseUrl" \in DOMAIN object THEN object.baseUrl ELSE Undefined

\* C8: resolution is total: when the artifact loads, the resolved baseUrl is
\* the artifact's; when require throws, the resolved configuration is the
\* hard-coded default and a warning is emitted; the run configuration is
\* produced either way.
C8_ResolutionIsTotal ==
    /\ envPc \in {"define", "defined"} =>
          IF artifact.kind \in {"missing", "throws"}
          THEN /\ warned
               /\ envConfig = [baseUrl |-> "https://example.cypress.io"]
          ELSE BaseUrlOf(envConfig) =
                 (IF artifact.kind = "module"
                  THEN artifact.default.baseUrl ELSE Undefined)
    /\ envPc = "define" => ENABLED DefineConfig
    /\ envPc = "defined" =>
          /\ BaseUrlOf(e2e) = BaseUrlOf(envConfig)
          /\ e2e.setupNodeEvents

C8_Witness ==
    /\ envPc = "defined"
    /\ environment = "nope"
    /\ artifact.kind = "missing"
    /\ warned
    /\ e2e.baseUrl = "https://example.cypress.io"

\* C9: an artifact without a default export makes the resolver warn and
\* substitute the default, so the run configuration has a baseUrl.
C9_MalformedExportFallsBack ==
    (envPc = "defined" /\ artifact.kind = "no default") =>
        /\ warned
        /\ envConfig = [baseUrl |-> "https://example.cypress.io"]
        /\ "baseUrl" \in DOMAIN e2e

\* C10: the environment identifier is the value of ENV, 'dev' when ENV is
\* not set or empty; it is the name the configuration is selected by.
C10_EnvironmentFromENV ==
    envPc # "start" =>
        /\ environment = (IF ENV \in {Undefined, ""} THEN "dev" ELSE ENV)
        /\ envPc # "load" =>
              required = [dir |-> "./cypress/config/", name |-> environment,
                          ext |-> ".config.ts"]

C10_Witness ==
    /\ envPc = "defined"
    /\ ENV = ""
    /\ environment = "dev"
    /\ required.name = "dev"

\* C11: each call of get, post, put or delete issues one cy.request command,
\* with the matching method, the given URL and failOnStatusCode false; a
\* body is sent by post and put only, omitted headers become an empty map,
\* and the call yields the response whatever its status (it fails on the
\* network only).
C11_OneRequestNeverRaisesOnStatus ==
    call.op # "none" =>
        /\ sent = 1
        /\ request.method = (CASE call.op = "get" -> "GET"
                               [] call.op = "post" -> "POST"
                               [] call.op = "put" -> "PUT"
                               [] call.op = "delete" -> "DELETE")
        /\ request.url = call.url
        /\ request.failOnStatusCode = FALSE
        /\ ("body" \in DOMAIN request) = (call.op \in {"post", "put"})
        /\ call.op \in {"post", "put"} => request.body = call.body
        /\ request.headers = (IF call.headers = [kind |-> "undefined"]
                              THEN [kind |-> "object", entries |-> {}]
                              ELSE call.headers)
        /\ response.kind \in {"pending", "yielded", "failed"}
        /\ response.kind = "failed" => response.reason = "network"

C11_Witness ==
    /\ call.op = "post"
    /\ call.headers = [kind |-> "undefined"]
    /\ request.headers.entries = {}
    /\ response.kind = "yielded"
    /\ response.status = 500

\* C12: verifyStatusCode passes exactly when response.status equals the
\* expected code, for 2xx and non-2xx codes alike.
C12_StatusCodePassesIffEqual ==
    check.op = "verifyStatusCode" =>
        (check.passed <=> response.status = check.args.expectedStatus)

C12_Witness ==
    /\ check.op = "verifyStatusCode"
    /\ response.status = 404
    /\ check.args.expectedStatus = 404
    /\ check.passed

\* C13: verifyBodyPropertyValue passes exactly when response.body[name] is
\* strictly equal to the value: the same type and the same value. A body
\* value "1" against the number 1 fails, and a property the body does not
\* have fails for every defined value.
C13_BodyPropertyValueStrict ==
    check.op = "verifyBodyPropertyValue" =>
        (check.passed <=>
            \/ <<check.args.property, check.args.value>> \in response.body.entries
            \/ /\ \A entry \in response.body.entries : entry[1] # check.args.property
               /\ check.args.property \notin {"constructor", "toString", "hasOwnProperty"}
               /\ check.args.value.t = "undefined")

C13_Witness ==
    /\ check.op = "verifyBodyPropertyValue"
    /\ <<"id", [t |-> "string", v |-> "1"]>> \in response.body.entries
    /\ check.args = [property |-> "id", value |-> [t |-> "number", v |-> "1"]]
    /\ ~check.passed

\* C14: verifyBodyProperty passes exactly when the name is an own key of
\* response.body; an inherited property does not count.
C14_BodyPropertyOwnKeyOnly ==
    check.op = "verifyBodyProperty" =>
        (check.passed <=>
            \E entry \in response.body.entries : entry[1] = check.args.property)

\* a key of the headers equal to the name up to letter case
StoredUpToCase(headers, headerName) ==
    {key \in OwnKeys(headers) : ToLowerCase(key) = ToLowerCase(headerName)}

C16_ResponseTimeStrictlyLess ==
    check.op = "verifyResponseTime" =>
        (check.passed <=> response.duration < check.args.maxDuration)

C16_Witness ==
    /\ check.op = "verifyResponseTime"
    /\ response.duration = check.args.maxDuration
    /\ ~check.passed

\* the query of the helper that ended last yielded a successful result
QuerySucceeded ==
    /\ verdict.how # "threw"
    /\ settled.outcome = "resolved"
    /\ settled.value.success

\* C17: verifyRecordExists passes exactly when its COUNT(*) query succeeded
\* and counted more than 0 rows, verifyRecordNotExists exactly when it
\* succeeded and counted 0; both fail the test when the query did not
\* succeed, and on a successful result exactly one of the two passes. The
\* count is the number of rows of the table that match the predicate.
C17_ExistsAndNotExists ==
    verdict.op \in {"verifyRecordExists", "verifyRecordNotExists"} =>
        LET count == settled.value.data[1].count IN
        /\ verdict.outcome \in {"passed", "failed"}
        /\ QuerySucceeded => count = Len(Matching(db, verdict.args.whereClause))
        /\ verdict.op = "verifyRecordExists" =>
              (verdict.outcome = "passed" <=> QuerySucceeded /\ count > 0)
        /\ verdict.op = "verifyRecordNotExists" =>
              (verdict.outcome = "passed" <=> QuerySucceeded /\ count = 0)
        /\ QuerySucceeded =>
              verifyRecordExists_then(settled.value)
                  # verifyRecordNotExists_then(settled.value)

C17_Witness ==
    /\ verdict.op = "verifyRecordExists"
    /\ verdict.outcome = "passed"
    /\ settled.value.data[1].count = 2

\* C18: verifyFieldValue passes exactly when its SELECT succeeded, returned
\* at least one row, and the field of the first row is strictly equal to
\* the expected value; rows after the first are not examined.
C18_FieldValueOfFirstRow ==
    verdict.op = "verifyFieldValue" =>
        /\ verdict.outcome \in {"passed", "failed"}
        /\ QuerySucceeded =>
              Len(settled.value.data) = Len(Matching(db, verdict.args.whereClause))
        /\ verdict.outcome = "passed" <=>
              /\ QuerySucceeded
              /\ Len(settled.value.data) > 0
              /\ settled.value.data[1][verdict.args.fieldName]
                     = verdict.args.expectedValue

C18_Witness ==
    /\ verdict.op = "verifyFieldValue"
    /\ QuerySucceeded
    /\ Len(settled.value.data) = 2
    /\ settled.value.data[1].age # verdict.args.expectedValue
    /\ settled.value.data[2].age = verdict.args.expectedValue
    /\ verdict.outcome = "failed"

\* C19: getRecordCount issues the COUNT(*) query with the WHERE restriction
\* when a where clause is given and without it when the clause is omitted
\* (or empty), and yields the count of the first result row, a number; when
\* the query did not succeed it fails the test and yields nothing.
C19_RecordCount ==
    /\ (helper.op = "getRecordCount" /\ pc # "idle") =>
          cur.arg.query =
              (IF helper.args.whereClause \in {"undefined", ""}
               THEN "SELECT COUNT(*) as count FROM " \o helper.args.tableName
               ELSE "SELECT COUNT(*) as count FROM " \o helper.args.tableName
                        \o " WHERE " \o helper.args.whereClause)
    /\ verdict.op = "getRecordCount" =>
          /\ verdict.outcome \in {"yielded", "failed"}
          /\ verdict.outcome = "yielded" <=> QuerySucceeded
          /\ verdict.outcome = "yielded" =>
                /\ verdict.value \in Nat
                /\ verdict.value = settled.value.data[1].count
                /\ verdict.value =
                      (IF verdict.args.whereClause \in {"undefined", ""}
                       THEN Len(db)
                       ELSE Len(Matching(db, verdict.args.whereClause)))

C19_Witness ==
    /\ verdict.op = "getRecordCount"
    /\ verdict.args.whereClause = "status = 'active'"
    /\ verdict.outcome = "yielded"
    /\ verdict.value = 1
    /\ Len(db) = 2

\* C20 as stated: after a successful deleteRecords the returned
\* rowsAffected[0] is the number of rows that matched before the call, and
\* a verifyRecordNotExists issued next on the same predicate passes.
C20_DeleteThenNotExistsPasses ==
    /\ (verdict.op = "deleteRecords" /\ QuerySucceeded) =>
          verdict.value.rowsAffected[1] = verdict.matching
    /\ (verdict.op = "verifyRecordNotExists" /\ verdict.afterDelete) =>
          verdict.outcome = "passed"

\* C20, amended: after a successful deleteRecords the returned
\* rowsAffected[0] is the number of rows that matched before the call and
\* no matching row is left; a verifyRecordNotExists issued next on the same
\* predicate passes whenever its own COUNT(*) query yields a successful
\* result, and fails the test only when that query fails.
C20_DeleteThenNotExistsPassesIfItsQuerySucceeds ==
    /\ (verdict.op = "deleteRecords" /\ QuerySucceeded) =>
          /\ verdict.outcome = "yielded"
          /\ verdict.value.rowsAffected[1] = verdict.matching
          /\ Matching(db, verdict.args.whereClause) = <<>>
    /\ (verdict.op = "verifyRecordNotExists" /\ verdict.afterDelete) =>
          (verdict.outcome = "passed" <=> QuerySucceeded)

C20_Witness ==
    /\ verdict.op = "verifyRecordNotExists"
    /\ verdict.afterDelete
    /\ verdict.outcome = "passed"
    /\ settled.value.data[1].count = 0
    /\ db # <<>>

\* C21: executeStoredProcedure binds every entry of the parameters map as
\* an input, each once and in the order of the keys, before the procedure
\* is executed; with parameters omitted it binds nothing and still executes
\* the procedure; like a query, it executes on a connection it opened and
\* then calls close.
C21_ParametersBoundBeforeExecution ==
    /\ cur.task = "dbStoredProcedure" =>
          LET keys == IF cur.arg.parameters.kind = "object"
                      THEN cur.arg.parameters.keys
                      ELSE <<>>
          IN  /\ pc = "execute" =>
                    /\ run.bound = keys
                    /\ run.connect = "ok"
                    /\ run.execute = "none"
              /\ run.execute # "none" => run.bound = keys
              /\ (cur.arg.parameters.kind = "undefined" /\ pc = "finally"
                  /\ run.connect = "ok") =>
                    /\ run.bound = <<>>
                    /\ run.execute # "none"
    /\ (TaskRan /\ settled.run.execute # "none") =>
          /\ settled.run.connect = "ok"
          /\ settled.run.close # "none"

C21_Witness ==
    /\ cur.task = "dbStoredProcedure"
    /\ pc = "finally"
    /\ run.bound = <<"userId", "name">>
    /\ run.execute = "ok"

\* C22: the helper commands of a test run in the order they were issued,
\* one at a time, a command starting only after the previous one has
\* ended; so no task holds a connection while the runner is between two
\* commands, and at most one connection opened by the helpers is open at
\* any moment.
C22_OneCommandAtATime ==
    /\ pc = "idle" => ~pool
    /\ open <= 1

\* C23: a DbResult returned by a database task is {success: true, data,
\* rowsAffected} without an error field, or {success: false, error} without
\* data and rowsAffected; nothing else is returned.
C23_ResultShapes ==
    /\ settled.outcome = "resolved" =>
          \/ /\ DOMAIN settled.value = {"success", "data", "rowsAffected"}
             /\ settled.value.success = TRUE
          \/ /\ DOMAIN settled.value = {"success", "error"}
             /\ settled.value.success = FALSE
    /\ ret # [kind |-> "none"] =>
          \/ DOMAIN ret.value = {"success", "data", "rowsAffected"}
          \/ DOMAIN ret.value = {"success", "error"}

C23_Witness ==
    /\ settled.outcome = "resolved"
    /\ settled.run.execute = "failed"
    /\ settled.value = [success |-> FALSE, error |-> "Request failed"]

\* C27: when the connection cannot be established, the task executes no
\* query or procedure, binds nothing, does not call close, and returns
\* {success: false, error} with the message of the connection error.
C27_ConnectFailure ==
    /\ (pc = "finally" /\ run.connect = "failed") => ~pool
    /\ (TaskRan /\ settled.run.connect = "failed") =>
          /\ settled.run.execute = "none"
          /\ settled.run.bound = <<>>
          /\ settled.run.close = "none"
          /\ settled.outcome = "resolved"
          /\ settled.value = [success |-> FALSE, error |-> "Failed to connect"]

C27_Witness ==
    /\ settled.task = "dbStoredProcedure"
    /\ settled.run.connect = "failed"
    /\ settled.outcome = "resolved"
    /\ opened = 0

\* C28: when binding the parameters fails in executeStoredProcedure (null
\* parameters, an input that throws), the connection is open, the
\* procedure is not executed, the connection is closed and the task returns
\* {success: false, error}.
C28_BindFailureClosesAndReturns ==
    (/\ TaskRan
     /\ settled.task = "dbStoredProcedure"
     /\ settled.run.connect = "ok"
     /\ settled.run.execute = "none") =>
        /\ settled.run.close = "ok"
        /\ settled.outcome = "resolved"
        /\ IsFailureResult(settled.value)

\* C24: a call of query or executeStoredProcedure with a config override
\* dispatches the task with the override, and no dispatching call changes
\* the stored configuration (it stays unset if it was unset): a following
\* call without override finds what it would have found without the
\* overriding call.
C24_OverrideLeavesStoredConfig ==
    [][dispatched' = dispatched + 1 =>
          /\ config' = config
          /\ setConfigCalled' = setConfigCalled
          /\ lastCall'.arg \notin {"undefined", "null", ""} =>
                commands'[Len(commands')].arg.config = lastCall'.arg]_vars

C24_Witness ==
    /\ lastCall.outcome = "dispatched"
    /\ lastCall.arg = "cfgB"
    /\ config = "cfgA"
    /\ commands # <<>>
    /\ commands[Len(commands)].arg.config = "cfgB"

\* C25: a command carries the configuration in force when query or
\* executeStoredProcedure was called; a setConfig between the call and the
\* run of the task changes neither the commands issued nor the running
\* task, and the task runs with the command as it was issued.
C25_ConfigFixedWhenIssued ==
    [][/\ dispatched' = dispatched + 1 =>
             commands'[Len(commands')].arg.config =
                 (IF lastCall'.arg \in {"undefined", "null", ""}
                  THEN config
                  ELSE lastCall'.arg)
       /\ config' # config => (commands' = commands /\ cur' = cur)
       /\ (pc = "idle" /\ pc' = "connect") => cur' = commands[1]]_vars

C25_Witness ==
    /\ pc = "connect"
    /\ cur.arg.config = "cfgA"
    /\ lastCall.op = "setConfig"
    /\ config = "cfgB"

\* C26: deleteRecords asserts nothing: it issues one DELETE with the given
\* predicate and yields the task's DbResult as it is, so a delete whose
\* query failed yields {success: false, error} and does not fail the test.
C26_DeleteYieldsRawResult ==
    /\ (helper.op = "deleteRecords" /\ pc # "idle") =>
          cur.arg.query = "DELETE FROM " \o helper.args.tableName
                              \o " WHERE " \o helper.args.whereClause
    /\ (verdict.op = "deleteRecords" /\ verdict.how # "threw"
        /\ settled.run.execute = "failed") =>
          /\ verdict.outcome = "yielded"
          /\ verdict.message = ""
          /\ verdict.value = [success |-> FALSE, error |-> "Request failed"]

\* C30: in verifyRecordExists, verifyRecordNotExists, getRecordCount and
\* verifyFieldValue the assertion on result.success comes first: on a
\* result with success=false and no data the helper fails with 'Database
\* query should succeed' and does not read result.data.
C30_SuccessAssertedBeforeDataIsRead ==
    (/\ verdict.op \in {"verifyRecordExists", "verifyRecordNotExists",
                        "getRecordCount", "verifyFieldValue"}
     /\ verdict.how = "callback"
     /\ settled.value.success = FALSE) =>
        /\ verdict.outcome = "failed"
        /\ verdict.message = "Database query should succeed"

C30_Witness ==
    /\ verdict.op = "verifyFieldValue"
    /\ verdict.how = "callback"
    /\ DOMAIN settled.value = {"success", "error"}
    /\ verdict.message = "Database query should succeed"

\* C29: getDbConfig is total and case-insensitive on the environment name:
\* every spelling of 'qa' yields the QA configuration, every spelling of
\* 'staging' the staging configuration, and every spelling of 'dev', an
\* omitted argument and every other name ('prod', unknown names, the empty
\* string) the dev configuration; a string never makes it raise and it
\* returns no configuration but these three.
C29_TotalAndCaseInsensitive ==
    dbConfig # NotCalled =>
        /\ dbConfig.kind = "return" =>
              dbConfig.value \in {devDbConfig, qaDbConfig, stagingDbConfig}
        /\ ~dbEnvironment.given => dbConfig = Return(devDbConfig)
        /\ (dbEnvironment.given /\ dbEnvironment.v.t = "string") =>
              /\ dbConfig.kind = "return"
              /\ dbEnvironment.v.v \in Casings(qa) =>
                    dbConfig.value = qaDbConfig
              /\ dbEnvironment.v.v \in Casings(staging) =>
                    dbConfig.value = stagingDbConfig
              /\ dbEnvironment.v.v \notin Casings(qa) \cup Casings(staging) =>
                    dbConfig.value = devDbConfig

C29_Witness ==
    /\ dbEnvironment = Given(Str(<<"S", "t", "a", "g", "i", "n", "G">>))
    /\ dbConfig = Return(stagingDbConfig)

====
